---- MODULE Spec2Model ----
(***************************************************************************)
(* Account-lockout engine (LockoutService) of the authentication gateway,  *)
(* and the controller handlers that drive it.                              *)
(*                                                                         *)
(* Time is in milliseconds, as in the source (Date.now()).  A lockout      *)
(* record is [count, lockedUntil, totalLockouts, lastAttempt]; the map     *)
(* failedAttempts is a function whose domain is the set of keys that have  *)
(* a record.                                                               *)
(***************************************************************************)
EXTENDS Integers, Sequences, FiniteSets, Bags, TLC

VARIABLES
    failedAttempts,             \* LockoutService.failedAttempts : Map<string, LockoutRecord>
    MAX_ATTEMPTS,               \* LockoutService.MAX_ATTEMPTS (readonly, set by the constructor)
    BASE_LOCKOUT_DURATION_MS,   \* LockoutService.BASE_LOCKOUT_DURATION_MS (readonly)
    now,                        \* the wall clock, Date.now()
    nextCleanup,                \* when the setInterval timer of the constructor is next due
    ret,                        \* history: the last step that changed the state, and its result
    run,                        \* history: the current run of consecutive recordFailedAttempt calls
    lockHist,                   \* history: per key, the duration of its latest lock event
    failedIds,                  \* history: the normalised identities that ever had a failure recorded
    ticks,                      \* history: how often the clock was advanced
    resets,                     \* history: how many clearAttempts, fullReset and resetPassword calls
    pending,                    \* the bag of login and register requests that await the identity provider
    requests,                   \* history: how many login and register requests were received
    res,                        \* history: the latest step of a login or register request
    guesses,                    \* history: how many logins the provider answered "invalid credentials"
    oauthStateStore,            \* auth.controller.ts oauthStateStore : Map<string, {expires, ip}>
    nextStateCleanup,           \* when the setInterval timer of the state store is next due
    issued,                     \* history: when each OAuth state was generated
    accepted,                   \* history: how often validateOAuthState accepted each state
    verdict                     \* history: the latest call of validateOAuthState and its result

web == <<pending, requests, res, guesses>>

oauth == <<oauthStateStore, nextStateCleanup, issued, accepted, verdict>>

vars == <<failedAttempts, MAX_ATTEMPTS, BASE_LOCKOUT_DURATION_MS, now, nextCleanup,
          ret, run, lockHist, failedIds, ticks, resets, web, oauth>>

----------------------------------------------------------------------------
(* Program constants *)

MAX_LOCKOUT_DURATION_MS == 86400000
CLEANUP_INTERVAL_MS == 3600000
RECORD_EXPIRY_MS == 86400000
MaxExponent == 10
MsPerMinute == 60000
DefaultMaxAttempts == 5
DefaultLockoutDurationMs == 900000

(* Bounds of the model *)

MaxTicks == 1
MaxResets == 1
MaxLockouts == 1
SharedTicks == 1
SharedResets == 1
SharedLockouts == 1
DefaultTicks == 1
DefaultResets == 1
DefaultLockouts == 1
CycleTicks == 1
CycleResets == 1
CycleLockouts == 2
DeepTicks == 2
LiveTicks == 1
LiveQuietTicks == 2
LiveResets == 1
LiveLockouts == 1
WebRequests == 3
WebTicks == 1
BurstRequests == 4
BurstTicks == 1
OAuthStates == 2
OAuthCallbacks == 3
OAuthTicks == 2
DeepResets == 2
DeepLockouts == 12

(* record.lockedUntil === undefined *)
Undefined == -1

(* auth.controller.ts: the lifetime of an OAuth state and the period of the *)
(* timer that removes expired states                                        *)
OAUTH_STATE_TTL_MS == 600000
STATE_CLEANUP_INTERVAL_MS == 60000

(* An absent origin: `if (ip)` treats undefined and "" alike. *)
NoIp == ""

----------------------------------------------------------------------------
(* Pure helpers *)

Min(a, b) == IF a <= b THEN a ELSE b

Max(a, b) == IF a >= b THEN a ELSE b

RECURSIVE Pow2(_)
Pow2(n) == IF n <= 0 THEN 1 ELSE 2 * Pow2(n - 1)

(* Mutant: the minutes are rounded down *)
CeilMinutes_floor(ms) == ms \div MsPerMinute

(* Math.ceil(ms / 60000) for ms >= 0 *)
CeilMinutes(ms) == (ms + MsPerMinute - 1) \div MsPerMinute

(* String.prototype.toLowerCase on the identities the model uses *)
toLowerCase(s) ==
    CASE s = "A@x.io" -> "a@x.io"
      [] s = "User@Example.com" -> "user@example.com"
      [] OTHER -> s

(* Mutant: the origin keys are derived even when the origin is absent *)
getCompositeKey_alwaysThree(email, ip) ==
    << "email:" \o toLowerCase(email),
       "ip:" \o ip,
       "combo:" \o toLowerCase(email) \o ":" \o ip >>

(* LockoutService.getCompositeKey: the keys in iteration order *)
getCompositeKey(email, ip) ==
    IF ip # NoIp
    THEN << "email:" \o toLowerCase(email),
            "ip:" \o ip,
            "combo:" \o toLowerCase(email) \o ":" \o ip >>
    ELSE << "email:" \o toLowerCase(email) >>

KeySet(email, ip) == { getCompositeKey(email, ip)[n] : n \in 1..Len(getCompositeKey(email, ip)) }

(* Math.min(a * m, cap) for a, m >= 0.  The source computes the product in *)
(* double precision, where it is exact; the product is not formed here when *)
(* it exceeds cap, so that no value leaves the model checker's 32-bit range. *)
MinOfProduct(a, m, cap) ==
    IF a = 0 \/ m <= cap \div a THEN Min(a * m, cap) ELSE cap

(* Mutant: the duration is not capped at the maximum *)
calculateLockoutDuration_noCeiling(totalLockouts) ==
    BASE_LOCKOUT_DURATION_MS * Pow2(Min(totalLockouts, MaxExponent))

(* Mutant: the exponent is not capped *)
calculateLockoutDuration_noExponentCap(totalLockouts) ==
    MinOfProduct(BASE_LOCKOUT_DURATION_MS, Pow2(totalLockouts), MAX_LOCKOUT_DURATION_MS)

(* LockoutService.calculateLockoutDuration *)
calculateLockoutDuration(totalLockouts) ==
    LET multiplier == Pow2(Min(totalLockouts, MaxExponent))
    IN  MinOfProduct(BASE_LOCKOUT_DURATION_MS, multiplier, MAX_LOCKOUT_DURATION_MS)

Has(fa, key) == key \in DOMAIN fa

(* Map.set *)
MapSet(fa, key, rec) == [k \in (DOMAIN fa) \cup {key} |-> IF k = key THEN rec ELSE fa[k]]

(* Map.delete *)
MapDelete(fa, keys) == [k \in (DOMAIN fa) \ keys |-> fa[k]]

----------------------------------------------------------------------------
(* LockoutService: the operations as functions of the map and the clock.   *)
(* Each returns [ret |-> the call's result, fa |-> the map afterwards].    *)

(* Mutant: a lock that still holds at the instant it ends *)
StillLocked_inclusive(rec, t) == t <= rec.lockedUntil

(* `new Date() < record.lockedUntil` *)
StillLocked(rec, t) == t < rec.lockedUntil

(* Mutant: the loop ends at the first key that has no record *)
RECURSIVE isLockedFrom_stopsAtMissing(_, _, _, _)
isLockedFrom_stopsAtMissing(fa, t, keys, n) ==
    IF n > Len(keys) \/ ~Has(fa, keys[n])
    THEN [ret |-> FALSE, fa |-> fa]
    ELSE IF fa[keys[n]].lockedUntil # Undefined
         THEN IF StillLocked(fa[keys[n]], t)
              THEN [ret |-> TRUE, fa |-> fa]
              ELSE isLockedFrom_stopsAtMissing(
                       MapSet(fa, keys[n], [fa[keys[n]] EXCEPT !.lockedUntil = Undefined]),
                       t, keys, n + 1)
         ELSE isLockedFrom_stopsAtMissing(fa, t, keys, n + 1)

(* Mutant: the loop does not return at the first locked key *)
RECURSIVE isLockedFrom_visitsAllKeys(_, _, _, _)
isLockedFrom_visitsAllKeys(fa, t, keys, n) ==
    IF n > Len(keys)
    THEN [ret |-> \E m \in 1..Len(keys) :
                     /\ Has(fa, keys[m])
                     /\ fa[keys[m]].lockedUntil # Undefined
                     /\ StillLocked(fa[keys[m]], t),
          fa |-> fa]
    ELSE LET key == keys[n]
         IN  IF Has(fa, key) /\ fa[key].lockedUntil # Undefined /\ ~StillLocked(fa[key], t)
             THEN isLockedFrom_visitsAllKeys(
                      MapSet(fa, key, [fa[key] EXCEPT !.lockedUntil = Undefined]),
                      t, keys, n + 1)
             ELSE isLockedFrom_visitsAllKeys(fa, t, keys, n + 1)

(* Mutant: lazy expiry also resets the count *)
RECURSIVE isLockedFrom_expiryResetsCount(_, _, _, _)
isLockedFrom_expiryResetsCount(fa, t, keys, n) ==
    IF n > Len(keys)
    THEN [ret |-> FALSE, fa |-> fa]
    ELSE LET key == keys[n]
         IN  IF Has(fa, key) /\ fa[key].lockedUntil # Undefined
             THEN IF StillLocked(fa[key], t)
                  THEN [ret |-> TRUE, fa |-> fa]
                  ELSE isLockedFrom_expiryResetsCount(
                           MapSet(fa, key, [fa[key] EXCEPT !.lockedUntil = Undefined, !.count = 0]),
                           t, keys, n + 1)
             ELSE isLockedFrom_expiryResetsCount(fa, t, keys, n + 1)

(* LockoutService.isLocked: the loop over the keys from position n on *)
RECURSIVE isLockedFrom(_, _, _, _)
isLockedFrom(fa, t, keys, n) ==
    IF n > Len(keys)
    THEN [ret |-> FALSE, fa |-> fa]
    ELSE LET key == keys[n]
         IN  IF Has(fa, key) /\ fa[key].lockedUntil # Undefined
             THEN IF StillLocked(fa[key], t)
                  THEN [ret |-> TRUE, fa |-> fa]
                  ELSE isLockedFrom(MapSet(fa, key, [fa[key] EXCEPT !.lockedUntil = Undefined]),
                                    t, keys, n + 1)
             ELSE isLockedFrom(fa, t, keys, n + 1)

(* Mutant: only the identity-keyed record is looked at *)
isLocked_firstKeyOnly(fa, t, identifier, ip) ==
    isLockedFrom(fa, t, SubSeq(getCompositeKey(identifier, ip), 1, 1), 1)

isLocked(fa, t, identifier, ip) == isLockedFrom(fa, t, getCompositeKey(identifier, ip), 1)

(* Mutant: the threshold compared with > instead of >= *)
ReachedMaxAttempts_strict(count) == count > MAX_ATTEMPTS

(* `record.count >= this.MAX_ATTEMPTS` *)
ReachedMaxAttempts(count) == count >= MAX_ATTEMPTS

(* Mutant: a failure on a record that still carries a lockedUntil locks again *)
RecordAfterFailure_extendsLock(fa, t, key) ==
    LET record  == IF Has(fa, key)
                   THEN fa[key]
                   ELSE [count |-> 0, lockedUntil |-> Undefined,
                         totalLockouts |-> 0, lastAttempt |-> t]
        counted == [record EXCEPT !.count = record.count + 1, !.lastAttempt = t]
    IN  IF ReachedMaxAttempts(counted.count) \/ record.lockedUntil # Undefined
        THEN [counted EXCEPT
                 !.totalLockouts = counted.totalLockouts + 1,
                 !.lockedUntil = t + calculateLockoutDuration(counted.totalLockouts + 1),
                 !.count = 0]
        ELSE counted

(* Mutant: the count is not reset when the key locks *)
RecordAfterFailure_keepsCount(fa, t, key) ==
    LET record  == IF Has(fa, key)
                   THEN fa[key]
                   ELSE [count |-> 0, lockedUntil |-> Undefined,
                         totalLockouts |-> 0, lastAttempt |-> t]
        counted == [record EXCEPT !.count = record.count + 1, !.lastAttempt = t]
    IN  IF ReachedMaxAttempts(counted.count)
        THEN [counted EXCEPT
                 !.totalLockouts = counted.totalLockouts + 1,
                 !.lockedUntil = t + calculateLockoutDuration(counted.totalLockouts + 1)]
        ELSE counted

(* The body of the loop of recordFailedAttempt for one key: the record it sets *)
RecordAfterFailure(fa, t, key) ==
    LET record  == IF Has(fa, key)
                   THEN fa[key]
                   ELSE [count |-> 0, lockedUntil |-> Undefined,
                         totalLockouts |-> 0, lastAttempt |-> t]
        counted == [record EXCEPT !.count = record.count + 1, !.lastAttempt = t]
    IN  IF ReachedMaxAttempts(counted.count)
        THEN [counted EXCEPT
                 !.totalLockouts = counted.totalLockouts + 1,
                 !.lockedUntil = t + calculateLockoutDuration(counted.totalLockouts + 1),
                 !.count = 0]
        ELSE counted

(* Whether the loop body sets shouldLock for this key *)
LocksOnFailure(fa, key) ==
    ReachedMaxAttempts((IF Has(fa, key) THEN fa[key].count ELSE 0) + 1)

(* Mutant: shouldLock is assigned, not accumulated: the last key decides *)
RECURSIVE recordFailedAttemptFrom_lastKeyDecides(_, _, _, _, _)
recordFailedAttemptFrom_lastKeyDecides(fa, t, keys, n, shouldLock) ==
    IF n > Len(keys)
    THEN [ret |-> shouldLock, fa |-> fa]
    ELSE recordFailedAttemptFrom_lastKeyDecides(
             MapSet(fa, keys[n], RecordAfterFailure(fa, t, keys[n])),
             t, keys, n + 1, LocksOnFailure(fa, keys[n]))

(* LockoutService.recordFailedAttempt: the loop over the keys from position n on *)
RECURSIVE recordFailedAttemptFrom(_, _, _, _, _)
recordFailedAttemptFrom(fa, t, keys, n, shouldLock) ==
    IF n > Len(keys)
    THEN [ret |-> shouldLock, fa |-> fa]
    ELSE recordFailedAttemptFrom(MapSet(fa, keys[n], RecordAfterFailure(fa, t, keys[n])),
                                 t, keys, n + 1,
                                 shouldLock \/ LocksOnFailure(fa, keys[n]))

recordFailedAttempt(fa, t, identifier, ip) ==
    recordFailedAttemptFrom(fa, t, getCompositeKey(identifier, ip), 1, FALSE)

(* Mutant: the lockout history is reset with the count *)
ClearedRecord_resetsTotal(rec) ==
    [rec EXCEPT !.count = 0, !.lockedUntil = Undefined, !.totalLockouts = 0]

(* The record clearAttempts leaves for a key that has one *)
ClearedRecord(rec) == [rec EXCEPT !.count = 0, !.lockedUntil = Undefined]

(* Mutant: every record of the map is cleared, not only the derived ones *)
clearAttempts_allRecords(fa, identifier, ip) == [k \in DOMAIN fa |-> ClearedRecord(fa[k])]

(* LockoutService.clearAttempts *)
clearAttempts(fa, identifier, ip) ==
    [k \in DOMAIN fa |-> IF k \in KeySet(identifier, ip) THEN ClearedRecord(fa[k]) ELSE fa[k]]

(* Mutant: the records are cleared instead of deleted *)
fullReset_clearsOnly(fa, identifier, ip) == clearAttempts(fa, identifier, ip)

(* LockoutService.fullReset *)
fullReset(fa, identifier, ip) == MapDelete(fa, KeySet(identifier, ip))

(* The minutes one key contributes to getRemainingLockoutTime *)
RemainingMinutes(fa, t, key) ==
    IF Has(fa, key) /\ fa[key].lockedUntil # Undefined /\ fa[key].lockedUntil - t > 0
    THEN CeilMinutes(fa[key].lockedUntil - t)
    ELSE 0

(* LockoutService.getRemainingLockoutTime: the loop over the keys from position n on *)
RECURSIVE getRemainingFrom(_, _, _, _, _)
getRemainingFrom(fa, t, keys, n, maxRemaining) ==
    IF n > Len(keys)
    THEN maxRemaining
    ELSE getRemainingFrom(fa, t, keys, n + 1, Max(maxRemaining, RemainingMinutes(fa, t, keys[n])))

getRemainingLockoutTime(fa, t, identifier, ip) ==
    getRemainingFrom(fa, t, getCompositeKey(identifier, ip), 1, 0)

(* Mutant: the status of the last key that has a record, not the maximum *)
RECURSIVE getLockoutStatusFrom_lastKey(_, _, _, _, _)
getLockoutStatusFrom_lastKey(fa, t, keys, n, status) ==
    IF n > Len(keys)
    THEN status
    ELSE IF ~Has(fa, keys[n])
    THEN getLockoutStatusFrom_lastKey(fa, t, keys, n + 1, status)
    ELSE LET record == fa[keys[n]]
             locked == record.lockedUntil # Undefined /\ StillLocked(record, t)
         IN  getLockoutStatusFrom_lastKey(fa, t, keys, n + 1,
                 [isLocked         |-> locked,
                  remainingMinutes |-> IF locked THEN CeilMinutes(record.lockedUntil - t) ELSE 0,
                  failedAttempts   |-> record.count,
                  totalLockouts    |-> record.totalLockouts])

(* LockoutService.getLockoutStatus: the loop over the keys from position n on *)
RECURSIVE getLockoutStatusFrom(_, _, _, _, _)
getLockoutStatusFrom(fa, t, keys, n, status) ==
    IF n > Len(keys)
    THEN status
    ELSE IF ~Has(fa, keys[n])
    THEN getLockoutStatusFrom(fa, t, keys, n + 1, status)
    ELSE LET record == fa[keys[n]]
             locked == record.lockedUntil # Undefined /\ StillLocked(record, t)
         IN  getLockoutStatusFrom(fa, t, keys, n + 1,
                 [isLocked         |-> status.isLocked \/ locked,
                  remainingMinutes |-> IF locked
                                       THEN Max(status.remainingMinutes,
                                                CeilMinutes(record.lockedUntil - t))
                                       ELSE status.remainingMinutes,
                  failedAttempts   |-> Max(status.failedAttempts, record.count),
                  totalLockouts    |-> Max(status.totalLockouts, record.totalLockouts)])

getLockoutStatus(fa, t, identifier, ip) ==
    getLockoutStatusFrom(fa, t, getCompositeKey(identifier, ip), 1,
        [isLocked |-> FALSE, failedAttempts |-> 0, remainingMinutes |-> 0, totalLockouts |-> 0])

(* Mutant: a record is collected when it is unlocked and its last attempt is old *)
Collectable_unlockedAndStale(rec, t) ==
    /\ rec.lockedUntil = Undefined \/ rec.lockedUntil <= t
    /\ rec.lastAttempt < t - RECORD_EXPIRY_MS

(* Mutant: a record is collected as soon as its lock has run out *)
Collectable_expiredLock(rec, t) ==
    \/ rec.lockedUntil = Undefined /\ rec.lastAttempt < t - RECORD_EXPIRY_MS
    \/ rec.lockedUntil # Undefined /\ rec.lockedUntil < t

(* Mutant: only records without a lockedUntil are collected *)
Collectable_unlockedOnly(rec, t) ==
    rec.lockedUntil = Undefined /\ rec.lastAttempt < t - RECORD_EXPIRY_MS

(* Mutant: a record is collected by the age of its last attempt alone *)
Collectable_ignoresLock(rec, t) == rec.lastAttempt < t - RECORD_EXPIRY_MS

(* The test of LockoutService.cleanup for one record *)
Collectable(rec, t) ==
    LET expiredBefore == t - RECORD_EXPIRY_MS
    IN  \/ rec.lockedUntil = Undefined /\ rec.lastAttempt < expiredBefore
        \/ rec.lockedUntil # Undefined /\ rec.lockedUntil < expiredBefore

(* LockoutService.cleanup *)
cleanup(fa, t) == MapDelete(fa, {k \in DOMAIN fa : Collectable(fa[k], t)})

----------------------------------------------------------------------------
(* History bookkeeping (not program state) *)

Call(op, id, ip, b) == [op |-> op, id |-> id, ip |-> ip, bool |-> b]

NoRun == [id |-> "", ip |-> NoIp, n |-> 0, reset |-> FALSE]

TotalLockoutsOf(fa, key) == IF Has(fa, key) THEN fa[key].totalLockouts ELSE 0

(* The keys on which a step from map fa to map fb started a lock event *)
Triggered(fa, fb) == {k \in DOMAIN fb : fb[k].totalLockouts > TotalLockoutsOf(fa, k)}

(* Whether the step from fa to fb counted a failure on key k without locking it *)
CountedFailure(fa, fb, k) == Has(fa, k) /\ fb[k].count = fa[k].count + 1

(* Whether the lock of record rec has run out at time t *)
Elapsed(rec, t) == rec.lockedUntil # Undefined /\ rec.lockedUntil <= t

(* lockHist after a step from fa to fb at time t.  For every key that has a *)
(* record and had a lock event: dur, the duration of its latest lock; prev, *)
(* the duration of the lock before that (0: none); cleared, whether         *)
(* clearAttempts reset the key since its latest lock; afterClear, whether   *)
(* it had done so when the latest lock was triggered; events, the number of *)
(* lock events of the record; clean, whether since the latest lock event    *)
(* nothing changed the record but failures recorded after the lock had run  *)
(* out; fails, the number of those failures (0 when not clean); cycle, the  *)
(* number of failures of the clean cycle that ended with the latest lock    *)
(* event (0: the cycle was not clean, or the record was new).  resetKeys:   *)
(* the keys clearAttempts was called for in this step.                      *)
HistAfter(h, fa, fb, t, resetKeys) ==
    [k \in ((DOMAIN h) \cup Triggered(fa, fb)) \cap DOMAIN fb |->
        IF k \in Triggered(fa, fb)
        THEN [dur        |-> fb[k].lockedUntil - t,
              prev       |-> IF k \in DOMAIN h THEN h[k].dur ELSE 0,
              cleared    |-> FALSE,
              afterClear |-> k \in DOMAIN h /\ h[k].cleared,
              events     |-> IF k \in DOMAIN h THEN h[k].events + 1 ELSE 1,
              clean      |-> TRUE,
              fails      |-> 0,
              cycle      |-> IF k \in DOMAIN h /\ h[k].clean /\ Elapsed(fa[k], t)
                             THEN h[k].fails + 1 ELSE 0]
        ELSE LET clean == /\ h[k].clean
                          /\ \/ fb[k] = fa[k]
                             \/ CountedFailure(fa, fb, k) /\ Elapsed(fa[k], t)
             IN  [h[k] EXCEPT !.cleared = @ \/ k \in resetKeys,
                              !.clean = clean,
                              !.fails = IF ~clean THEN 0
                                        ELSE IF fb[k] = fa[k] THEN @ ELSE @ + 1]]

(* The latest step of a login or register request: handler h, phase        *)
(* "check" (up to the await) or "answer" (after it), the provider's answer  *)
(* and the error code of the response ("": none yet, "OK": success)         *)
Response(h, phase, email, ip, outcome, code) ==
    [h |-> h, phase |-> phase, email |-> email, ip |-> ip,
     outcome |-> outcome, code |-> code]

NoResponse == Response("", "", "", NoIp, "", "")

NoVerdict == [state |-> "", ok |-> FALSE, n |-> 0]

----------------------------------------------------------------------------
(* The state after construction *)

InitWith(maxAttempts, baseDuration) ==
    /\ failedAttempts = <<>>
    /\ MAX_ATTEMPTS = maxAttempts
    /\ BASE_LOCKOUT_DURATION_MS = baseDuration
    /\ now = 0
    /\ nextCleanup = CLEANUP_INTERVAL_MS
    /\ ret = Call("new", "", NoIp, FALSE)
    /\ run = NoRun
    /\ lockHist = <<>>
    /\ failedIds = {}
    /\ ticks = 0
    /\ resets = 0
    /\ pending = EmptyBag
    /\ requests = 0
    /\ res = NoResponse
    /\ guesses = 0
    /\ oauthStateStore = << >>
    /\ nextStateCleanup = STATE_CLEANUP_INTERVAL_MS
    /\ issued = << >>
    /\ accepted = << >>
    /\ verdict = NoVerdict

config == <<MAX_ATTEMPTS, BASE_LOCKOUT_DURATION_MS>>

----------------------------------------------------------------------------
(* Actions: one per operation *)

IsLocked(identifier, ip) ==
    LET r == isLocked(failedAttempts, now, identifier, ip)
    IN  /\ failedAttempts' = r.fa
        /\ ret' = IF r.fa = failedAttempts THEN ret ELSE Call("isLocked", identifier, ip, r.ret)
        /\ lockHist' = HistAfter(lockHist, failedAttempts, r.fa, now, {})
        /\ UNCHANGED <<config, now, nextCleanup, run, failedIds, ticks, resets, web, oauth>>

RecordFailedAttempt(identifier, ip, maxLockouts, failUntil) ==
    LET r     == recordFailedAttempt(failedAttempts, now, identifier, ip)
        fresh == \A k \in KeySet(identifier, ip) : ~Has(failedAttempts, k)
        same  == run.id = identifier /\ run.ip = ip
    IN  /\ \A k \in KeySet(identifier, ip) : TotalLockoutsOf(failedAttempts, k) < maxLockouts
        /\ ticks <= failUntil
        /\ failedAttempts' = r.fa
        /\ ret' = Call("recordFailedAttempt", identifier, ip, r.ret)
        /\ run' = IF same /\ run.n > 0
                  THEN [run EXCEPT !.n = Min(run.n + 1, MAX_ATTEMPTS + 1)]
                  ELSE IF fresh
                  THEN [id |-> identifier, ip |-> ip, n |-> 1, reset |-> same /\ run.reset]
                  ELSE [id |-> identifier, ip |-> ip, n |-> 0, reset |-> FALSE]
        /\ lockHist' = HistAfter(lockHist, failedAttempts, r.fa, now, {})
        /\ failedIds' = failedIds \cup {toLowerCase(identifier)}
        /\ UNCHANGED <<config, now, nextCleanup, ticks, resets, web, oauth>>

ClearAttempts(identifier, ip, maxResets) ==
    LET fb == clearAttempts(failedAttempts, identifier, ip)
    IN  /\ resets < maxResets
        /\ resets' = resets + 1
        /\ failedAttempts' = fb
        /\ ret' = Call("clearAttempts", identifier, ip, FALSE)
        /\ run' = NoRun
        /\ lockHist' = HistAfter(lockHist, failedAttempts, fb, now, KeySet(identifier, ip))
        /\ UNCHANGED <<config, now, nextCleanup, failedIds, ticks, web, oauth>>

FullReset(identifier, ip, maxResets) ==
    LET fb == fullReset(failedAttempts, identifier, ip)
    IN  /\ resets < maxResets
        /\ resets' = resets + 1
        /\ failedAttempts' = fb
        /\ ret' = Call("fullReset", identifier, ip, FALSE)
        /\ run' = [id |-> identifier, ip |-> ip, n |-> 0,
                   reset |-> \E k \in KeySet(identifier, ip) :
                                 TotalLockoutsOf(failedAttempts, k) >= 1]
        /\ lockHist' = HistAfter(lockHist, failedAttempts, fb, now, {})
        /\ UNCHANGED <<config, now, nextCleanup, failedIds, ticks, web, oauth>>

GetRemainingLockoutTime(identifier, ip) ==
    /\ getRemainingLockoutTime(failedAttempts, now, identifier, ip) >= 0
    /\ UNCHANGED vars

GetLockoutStatus(identifier, ip) ==
    /\ getLockoutStatus(failedAttempts, now, identifier, ip).totalLockouts >= 0
    /\ UNCHANGED vars

(* AuthController.resetPassword.  outcome is what the identity provider     *)
(* answers: the token is rejected, the password update fails, or it         *)
(* succeeds for the user whose e-mail is userEmail ("": the user has none). *)
ResetPassword(userEmail, outcome, maxResets) ==
    LET fb == IF outcome = "ok" /\ userEmail # ""
              THEN fullReset(failedAttempts, userEmail, NoIp)
              ELSE failedAttempts
    IN  /\ resets < maxResets
        /\ resets' = resets + 1
        /\ failedAttempts' = fb
        /\ ret' = Call("resetPassword", IF outcome = "ok" THEN userEmail ELSE "", NoIp,
                       outcome = "ok")
        /\ run' = NoRun
        /\ lockHist' = HistAfter(lockHist, failedAttempts, fb, now, {})
        /\ UNCHANGED <<config, now, nextCleanup, failedIds, ticks, web, oauth>>

(* The setInterval callback of the constructor.  It returns nothing: the    *)
(* history notes whether it deleted a record that had a lock event.         *)
Cleanup ==
    LET fb == cleanup(failedAttempts, now)
    IN  /\ now >= nextCleanup
        /\ failedAttempts' = fb
        /\ nextCleanup' = now + CLEANUP_INTERVAL_MS
        /\ ret' = Call("cleanup", "", NoIp,
                       \E k \in DOMAIN failedAttempts :
                           ~Has(fb, k) /\ failedAttempts[k].totalLockouts >= 1)
        /\ run' = IF \E k \in KeySet(run.id, run.ip) : Has(failedAttempts, k) /\ ~Has(fb, k)
                  THEN NoRun ELSE run
        /\ lockHist' = HistAfter(lockHist, failedAttempts, fb, now, {})
        /\ UNCHANGED <<config, now, failedIds, ticks, resets, web, oauth>>

(* The clock advances between calls *)
TickDeltas == {"second", "lockout", "retention"}

(* A second, the duration of a first lockout, just more than the retention *)
(* window, and the lifetime of an OAuth state                               *)
Delay(d) ==
    CASE d = "second" -> 1000
      [] d = "lockout" -> calculateLockoutDuration(1)
      [] d = "retention" -> RECORD_EXPIRY_MS + 1
      [] d = "lifetime" -> OAUTH_STATE_TTL_MS

Tick(deltas, maxTicks) ==
    /\ ticks < maxTicks
    /\ ticks' = ticks + 1
    /\ \E d \in deltas : now' = now + Delay(d)
    /\ ret' = Call("tick", "", NoIp, FALSE)
    /\ UNCHANGED <<failedAttempts, config, nextCleanup, run, lockHist, failedIds, resets, web, oauth>>

(* The delays that end a first lockout and that make a record stale *)
ExpiryDeltas == {"lockout", "retention"}

ResetOutcomes == {"invalid_token", "update_failed", "ok"}

(* W, OW: the identities that attempt to authenticate and the origins they  *)
(* come from; R, OR: the identities and origins asked about; B: the bounds  *)
(* of the exploration (failUntil: the last reading of ticks at which        *)
(* failures are still recorded).                                            *)
Step(W, OW, R, OR, B) ==
    \/ \E i \in R, o \in OR : IsLocked(i, o)
    \/ \E i \in W, o \in OW : RecordFailedAttempt(i, o, B.lockouts, B.failUntil)
    \/ \E i \in W, o \in OW : ClearAttempts(i, o, B.resets)
    \/ \E i \in W, o \in OW : FullReset(i, o, B.resets)
    \/ \E i \in R, o \in OR : GetRemainingLockoutTime(i, o)
    \/ \E i \in R, o \in OR : GetLockoutStatus(i, o)
    \/ \E e \in W \cup {""}, w \in ResetOutcomes : ResetPassword(e, w, B.resets)
    \/ Tick(B.deltas, B.ticks)
    \/ Cleanup

----------------------------------------------------------------------------
(* AuthController.login and AuthController.register.  Each handler runs up  *)
(* to its await in one step and, once the identity provider has answered,   *)
(* from there to its response in another; other requests run in between.    *)

(* What signInWithPassword may answer: an error of one of the classes the   *)
(* handler tells apart, no session, a user whose e-mail is unconfirmed, or  *)
(* a session                                                                *)
LoginErrors ==
    {"invalid_credentials", "fetch_failed", "email_not_confirmed", "banned", "too_many_requests"}
LoginOutcomes == LoginErrors \cup {"no_session", "unconfirmed", "ok"}

(* What signUp may answer *)
RegisterErrors ==
    {"fetch_failed", "user_already_exists", "email_address_invalid",
     "over_email_send_rate_limit", "service_unavailable", "signup_failed"}
RegisterOutcomes == RegisterErrors \cup {"no_user", "ok"}

(* Mutant: registrations are tracked under the e-mail address itself *)
registerIdentity_plain(email) == email

(* The identity register tracks an e-mail address under *)
registerIdentity(email) == "register:" \o email

lockoutIdentity(h, email) == IF h = "register" THEN registerIdentity(email) ELSE email

(* Mutant: the handler goes on to the identity provider whatever isLocked says *)
checkLock_neverBlocks(fa, t, identity, ip) ==
    [fa |-> isLocked(fa, t, identity, ip).fa, blocked |-> FALSE]

(* The lock check of both handlers: blocked, the request ends here with     *)
(* RATE_LIMITED (getRemainingLockoutTime only reads)                        *)
checkLock(fa, t, identity, ip) ==
    LET r == isLocked(fa, t, identity, ip)
    IN  [fa |-> r.fa, blocked |-> r.ret]

(* The error code login responds with after an error of the provider *)
loginErrorCode(outcome, shouldLock) ==
    IF shouldLock THEN "RATE_LIMITED"
    ELSE CASE outcome = "fetch_failed" -> "CONNECTION_FAILED"
           [] outcome = "email_not_confirmed" -> "EMAIL_NOT_VERIFIED"
           [] outcome = "too_many_requests" -> "RATE_LIMITED"
           [] OTHER -> "AUTH_FAILED"

(* login after its await: the map, the response code, whether a failure was *)
(* recorded and whether the attempts were cleared                           *)
loginAnswered(fa, t, email, ip, outcome) ==
    IF outcome \in LoginErrors
    THEN LET r == recordFailedAttempt(fa, t, email, ip)
         IN  [fa |-> r.fa, code |-> loginErrorCode(outcome, r.ret),
              recorded |-> TRUE, cleared |-> FALSE]
    ELSE IF outcome = "no_session"
    THEN [fa |-> recordFailedAttempt(fa, t, email, ip).fa, code |-> "AUTH_FAILED",
          recorded |-> TRUE, cleared |-> FALSE]
    ELSE IF outcome = "unconfirmed"
    THEN [fa |-> fa, code |-> "EMAIL_NOT_VERIFIED", recorded |-> FALSE, cleared |-> FALSE]
    ELSE [fa |-> clearAttempts(fa, email, ip), code |-> "OK",
          recorded |-> FALSE, cleared |-> TRUE]

(* The code register responds with after an error of the provider (a        *)
(* duplicate is answered like a success)                                    *)
registerErrorCode(outcome) ==
    CASE outcome = "fetch_failed" -> "CONNECTION_FAILED"
      [] outcome = "user_already_exists" -> "OK"
      [] outcome = "email_address_invalid" -> "INVALID_INPUT"
      [] outcome = "over_email_send_rate_limit" -> "RATE_LIMITED"
      [] outcome = "service_unavailable" -> "SERVICE_UNAVAILABLE"
      [] OTHER -> "REGISTRATION_FAILED"

(* register after its await *)
registerAnswered(fa, t, email, ip, outcome) ==
    IF outcome \in RegisterErrors
    THEN [fa |-> recordFailedAttempt(fa, t, registerIdentity(email), ip).fa,
          code |-> registerErrorCode(outcome), recorded |-> TRUE, cleared |-> FALSE]
    ELSE IF outcome = "no_user"
    THEN [fa |-> fa, code |-> "AUTH_FAILED", recorded |-> FALSE, cleared |-> FALSE]
    ELSE [fa |-> clearAttempts(fa, registerIdentity(email), ip), code |-> "OK",
          recorded |-> FALSE, cleared |-> TRUE]

Request(h, email, ip) == [h |-> h, email |-> email, ip |-> ip]

(* A request arrives: the handler checks the lock and, unless blocked,      *)
(* calls the identity provider and awaits its answer                        *)
Check(h, email, ip) ==
    LET identity == lockoutIdentity(h, email)
        r == checkLock(failedAttempts, now, identity, ip)
    IN  /\ requests' = requests + 1
        /\ failedAttempts' = r.fa
        /\ pending' = IF r.blocked THEN pending
                      ELSE pending (+) SetToBag({Request(h, email, ip)})
        /\ res' = Response(h, "check", email, ip, "",
                           IF r.blocked THEN "RATE_LIMITED" ELSE "")
        /\ ret' = IF r.fa = failedAttempts THEN ret
                  ELSE Call("isLocked", identity, ip, r.blocked)
        /\ lockHist' = HistAfter(lockHist, failedAttempts, r.fa, now, {})
        /\ UNCHANGED <<config, now, nextCleanup, run, failedIds, ticks, resets, guesses, oauth>>

(* The identity provider answers request q and the handler responds *)
Answer(q, a) ==
    LET identity == lockoutIdentity(q.h, q.email)
    IN  /\ pending' = pending (-) SetToBag({q})
        /\ failedAttempts' = a.fa
        /\ res' = Response(q.h, "answer", q.email, q.ip, a.outcome, a.code)
        /\ ret' = IF a.recorded THEN Call("recordFailedAttempt", identity, q.ip,
                                          Triggered(failedAttempts, a.fa) # {})
                  ELSE IF a.cleared THEN Call("clearAttempts", identity, q.ip, FALSE)
                  ELSE ret
        /\ run' = IF a.recorded \/ a.cleared THEN NoRun ELSE run
        /\ lockHist' = HistAfter(lockHist, failedAttempts, a.fa, now,
                                 IF a.cleared THEN KeySet(identity, q.ip) ELSE {})
        /\ failedIds' = IF a.recorded THEN failedIds \cup {toLowerCase(identity)}
                        ELSE failedIds
        /\ resets' = IF a.cleared THEN resets + 1 ELSE resets
        /\ guesses' = IF q.h = "login" /\ a.outcome = "invalid_credentials"
                      THEN guesses + 1 ELSE guesses
        /\ UNCHANGED <<config, now, nextCleanup, ticks, requests, oauth>>

LoginCheck(email, ip, maxRequests) ==
    /\ requests < maxRequests
    /\ Check("login", email, ip)

LoginAnswer(email, ip, outcome) ==
    /\ BagIn(Request("login", email, ip), pending)
    /\ Answer(Request("login", email, ip),
              [outcome |-> outcome] @@
              loginAnswered(failedAttempts, now, email, ip, outcome))

RegisterCheck(email, ip, maxRequests) ==
    /\ requests < maxRequests
    /\ Check("register", email, ip)

RegisterAnswer(email, ip, outcome) ==
    /\ BagIn(Request("register", email, ip), pending)
    /\ Answer(Request("register", email, ip),
              [outcome |-> outcome] @@
              registerAnswered(failedAttempts, now, email, ip, outcome))

(* E: the e-mail addresses of the requests; O: their origins; B: the bounds *)
Logins(E, O, B) ==
    \/ \E e \in E, o \in O : LoginCheck(e, o, B.requests)
    \/ \E e \in E, o \in O, w \in LoginOutcomes : LoginAnswer(e, o, w)
    \/ Tick(B.deltas, B.ticks)

Serve(E, O, B) ==
    \/ Logins(E, O, B)
    \/ \E e \in E, o \in O : RegisterCheck(e, o, B.requests)
    \/ \E e \in E, o \in O, w \in RegisterOutcomes : RegisterAnswer(e, o, w)

----------------------------------------------------------------------------
(* The OAuth state store of auth.controller.ts *)

(* The values randomBytes(32) may return, and one that it never returned.   *)
(* A value is returned once: two draws of 256 random bits do not collide.   *)
StateValues == {"s1", "s2", "s3"}
Forged == "forged"

(* generateOAuthState with the value randomBytes returned *)
generateOAuthState(store, t, state, ip) ==
    MapSet(store, state, [expires |-> t + OAUTH_STATE_TTL_MS, ip |-> ip])

(* data.expires < new Date() *)
StateExpired(data, t) == data.expires < t

(* Mutant: the state stays in the store when it is validated *)
validateOAuthState_keepsState(store, t, state) ==
    IF ~Has(store, state) THEN [store |-> store, ret |-> FALSE]
    ELSE [store |-> store, ret |-> ~StateExpired(store[state], t)]

(* validateOAuthState: the store afterwards and the result.  The origin is  *)
(* not compared (the comparison is commented out).                          *)
validateOAuthState(store, t, state) ==
    IF ~Has(store, state) THEN [store |-> store, ret |-> FALSE]
    ELSE [store |-> MapDelete(store, {state}), ret |-> ~StateExpired(store[state], t)]

(* The setInterval callback of the store *)
cleanupStates(store, t) ==
    MapDelete(store, {x \in DOMAIN store : StateExpired(store[x], t)})

lockout == <<failedAttempts, config, nextCleanup, run, lockHist, failedIds, resets>>

(* AuthController.getGoogleAuthUrl: a state is generated before the         *)
(* provider is asked for the URL, whatever the provider answers             *)
GetGoogleAuthUrl(state, ip, maxStates) ==
    /\ state \notin DOMAIN issued
    /\ Cardinality(DOMAIN issued) < maxStates
    /\ oauthStateStore' = generateOAuthState(oauthStateStore, now, state, ip)
    /\ issued' = MapSet(issued, state, now)
    /\ accepted' = MapSet(accepted, state, 0)
    /\ UNCHANGED <<lockout, now, ret, ticks, web, nextStateCleanup, verdict>>

(* AuthController.handleGoogleCallback up to the validation of the state:   *)
(* an error reported by the provider and a missing state ("") end the       *)
(* request before validateOAuthState is called                              *)
HandleGoogleCallback(oauthError, state, maxCallbacks) ==
    LET r == validateOAuthState(oauthStateStore, now, state)
    IN  /\ verdict.n < maxCallbacks
        /\ ~oauthError
        /\ state # ""
        /\ oauthStateStore' = r.store
        /\ verdict' = [state |-> state, ok |-> r.ret, n |-> verdict.n + 1]
        /\ accepted' = IF r.ret /\ state \in DOMAIN accepted
                       THEN [accepted EXCEPT ![state] = @ + 1] ELSE accepted
        /\ UNCHANGED <<lockout, now, ret, ticks, web, nextStateCleanup, issued>>

StateCleanup ==
    /\ now >= nextStateCleanup
    /\ oauthStateStore' = cleanupStates(oauthStateStore, now)
    /\ nextStateCleanup' = now + STATE_CLEANUP_INTERVAL_MS
    /\ UNCHANGED <<lockout, now, ret, ticks, web, issued, accepted, verdict>>

(* B: the bounds of the exploration *)
Authorize(O, B) ==
    \/ \E s \in StateValues, o \in O : GetGoogleAuthUrl(s, o, B.states)
    \/ \E e \in BOOLEAN, s \in StateValues \cup {Forged, ""} :
           HandleGoogleCallback(e, s, B.callbacks)
    \/ StateCleanup
    \/ Tick(B.deltas, B.ticks)

----------------------------------------------------------------------------
(* Specifications *)

Origins == {NoIp, "1.2.3.4"}

(* One account with a threshold of 2: it signs in as "A@x.io" and is asked  *)
(* about in either case                                                     *)
SignsInAs == {"A@x.io"}
Account == {"a@x.io", "A@x.io"}
Init == InitWith(2, DefaultLockoutDurationMs)
Next == Step(SignsInAs, Origins, Account, Origins,
             [lockouts |-> MaxLockouts, ticks |-> MaxTicks, failUntil |-> MaxTicks, resets |-> MaxResets,
              deltas |-> TickDeltas])
Spec == Init /\ [][Next]_vars

(* Two accounts that fail from one origin and a third that never fails *)
Failing == {"a@x.io", "b@x.io"}
Asking == {"c@x.io"}
InitShared == InitWith(2, DefaultLockoutDurationMs)
NextShared == Step(Failing, {"1.2.3.4"}, Asking, Origins,
                   [lockouts |-> SharedLockouts, ticks |-> SharedTicks, failUntil |-> SharedTicks, resets |-> SharedResets,
                    deltas |-> ExpiryDeltas])
SpecShared == InitShared /\ [][NextShared]_vars

(* The default configuration of config/env.ts *)
DefaultAccount == {"user@example.com"}
InitDefault == InitWith(DefaultMaxAttempts, DefaultLockoutDurationMs)
NextDefault == Step(DefaultAccount, Origins, DefaultAccount, Origins,
                    [lockouts |-> DefaultLockouts, ticks |-> DefaultTicks, failUntil |-> DefaultTicks, resets |-> DefaultResets,
                     deltas |-> ExpiryDeltas])
SpecDefault == InitDefault /\ [][NextDefault]_vars

(* One account that is locked out twice, with a threshold of 2 *)
CycleAccount == {"a@x.io"}
InitCycle == InitWith(2, DefaultLockoutDurationMs)
NextCycle == Step(CycleAccount, Origins, CycleAccount, {"1.2.3.4"},
                  [lockouts |-> CycleLockouts, ticks |-> CycleTicks, failUntil |-> CycleTicks, resets |-> CycleResets,
                   deltas |-> TickDeltas])
SpecCycle == InitCycle /\ [][NextCycle]_vars

(* One account whose failures cease: they are recorded until the clock has  *)
(* been advanced LiveTicks times, and the clock is then advanced            *)
(* LiveQuietTicks more times, by more than the retention window each.  The  *)
(* clock keeps advancing and the sweep keeps running (setInterval).         *)
LiveDeltas == {"retention"}
LiveBounds == [lockouts |-> LiveLockouts, ticks |-> LiveTicks + LiveQuietTicks,
               failUntil |-> LiveTicks, resets |-> LiveResets, deltas |-> LiveDeltas]
InitLive == InitWith(2, DefaultLockoutDurationMs)
NextLive == Step(CycleAccount, {"1.2.3.4"}, CycleAccount, {"1.2.3.4"}, LiveBounds)
SpecLive ==
    /\ InitLive
    /\ [][NextLive]_vars
    /\ WF_vars(Tick(LiveDeltas, LiveBounds.ticks))
    /\ WF_vars(Cleanup)

(* Two accounts that log in and register from one origin, with a threshold *)
(* of 2; the clock advances by the first lockout's duration                 *)
WebEmails == {"a@x.io", "b@x.io"}
WebOrigin == "1.2.3.4"
WebDeltas == {"lockout"}
WebBounds == [requests |-> WebRequests, ticks |-> WebTicks, deltas |-> WebDeltas]
InitWeb == InitWith(2, DefaultLockoutDurationMs)
NextWeb == Serve(WebEmails, {WebOrigin}, WebBounds)
SpecWeb == InitWeb /\ [][NextWeb]_vars

(* A burst of logins to one account from one origin, with a threshold of 2 *)
BurstBounds == [requests |-> BurstRequests, ticks |-> BurstTicks, deltas |-> WebDeltas]
InitBurst == InitWith(2, DefaultLockoutDurationMs)
NextBurst == Logins(CycleAccount, {WebOrigin}, BurstBounds)
SpecBurst == InitBurst /\ [][NextBurst]_vars

(* OAuth states are generated, presented and swept while the clock         *)
(* advances by a second or by the lifetime of a state                       *)
OAuthDeltas == {"second", "lifetime"}
OAuthBounds == [states |-> OAuthStates, callbacks |-> OAuthCallbacks,
                ticks |-> OAuthTicks, deltas |-> OAuthDeltas]
InitOAuth == InitWith(DefaultMaxAttempts, DefaultLockoutDurationMs)
NextOAuth == Authorize({WebOrigin}, OAuthBounds)
SpecOAuth == InitOAuth /\ [][NextOAuth]_vars

(* Repeat offenders: a threshold of 1, a short and a long base duration *)
InitDeep == InitWith(1, 1000) \/ InitWith(1, 21600000)
NextDeep == Step(DefaultAccount, {NoIp}, DefaultAccount, {NoIp},
                 [lockouts |-> DeepLockouts, ticks |-> DeepTicks, failUntil |-> DeepTicks, resets |-> DeepResets,
                  deltas |-> TickDeltas])
SpecDeep == InitDeep /\ [][NextDeep]_vars

----------------------------------------------------------------------------
(* Properties *)

AllIdentities ==
    {"a@x.io", "A@x.io", "b@x.io", "c@x.io", "user@example.com", "User@Example.com"}

(* The three records of (identity, origin), and the one of an identity     *)
(* without origin, named directly                                           *)
IdentityKey(identity) == "email:" \o toLowerCase(identity)
OriginKey(origin) == "ip:" \o origin
IdentityOriginKey(identity, origin) == "combo:" \o toLowerCase(identity) \o ":" \o origin

DerivedKeys(identity, origin) ==
    IF origin = NoIp
    THEN {IdentityKey(identity)}
    ELSE {IdentityKey(identity), OriginKey(origin), IdentityOriginKey(identity, origin)}

LockedNow(key) ==
    /\ Has(failedAttempts, key)
    /\ failedAttempts[key].lockedUntil # Undefined
    /\ failedAttempts[key].lockedUntil > now

(* The state right after the call that completes a run of MAX_ATTEMPTS      *)
(* consecutive recordFailedAttempt(run.id, run.ip) calls that began with no *)
(* record for any of the derived keys                                       *)
RunComplete == ret.op = "recordFailedAttempt" /\ run.n = MAX_ATTEMPTS

(* C1: starting with no records for the derived keys, the MAX_ATTEMPTS-th   *)
(* consecutive recordFailedAttempt(identity, origin) returns true, and      *)
(* isLocked(identity, origin) is true immediately afterwards.               *)
C1_LockAfterMaxAttempts ==
    RunComplete => ret.bool /\ isLocked(failedAttempts, now, run.id, run.ip).ret

C1_Witness ==
    /\ RunComplete
    /\ run.ip # NoIp
    /\ ret.bool
    /\ ticks > 0
    /\ LockedNow(IdentityOriginKey(run.id, run.ip))

(* C3: with maxAttempts = 5 and baseDuration = 15 minutes, right after the  *)
(* 5th failed attempt for a fresh (identity, origin)                        *)
(* getRemainingLockoutTime(identity, origin) returns 15.                    *)
C3_FirstLockoutIsBaseDuration ==
    (RunComplete /\ run.ip # NoIp /\ MAX_ATTEMPTS = 5 /\ BASE_LOCKOUT_DURATION_MS = 15 * MsPerMinute)
        => getRemainingLockoutTime(failedAttempts, now, run.id, run.ip) = 15

(* C2: isLocked(identity, origin) returns true if and only if at least one  *)
(* of the derived records has lockedUntil strictly in the future; a lock on *)
(* any single one of them is enough.                                        *)
C2_LockedIffSomeKeyLocked ==
    \A i \in AllIdentities, o \in Origins :
        isLocked(failedAttempts, now, i, o).ret
            <=> (\E k \in DerivedKeys(i, o) : LockedNow(k))

(* Only the origin-keyed record is locked, and isLocked answers true *)
C2_Witness ==
    \E i \in AllIdentities, o \in Origins \ {NoIp} :
        /\ LockedNow(OriginKey(o))
        /\ Has(failedAttempts, IdentityKey(i)) /\ ~LockedNow(IdentityKey(i))
        /\ Has(failedAttempts, IdentityOriginKey(i, o)) /\ ~LockedNow(IdentityOriginKey(i, o))
        /\ isLocked(failedAttempts, now, i, o).ret

(* C9: when the failures of several identities from one origin add up to    *)
(* MAX_ATTEMPTS on the origin-keyed record, none of them reaching the       *)
(* threshold on its own keys, isLocked(X, origin) is true for an identity X *)
(* that has no record under its identity key or its identity+origin key.    *)
OriginAloneTriggered ==
    /\ ret.op = "recordFailedAttempt"
    /\ ret.bool
    /\ ret.ip # NoIp
    /\ TotalLockoutsOf(failedAttempts, IdentityKey(ret.id)) = 0
    /\ TotalLockoutsOf(failedAttempts, IdentityOriginKey(ret.id, ret.ip)) = 0

BrandNew(x, origin) ==
    /\ toLowerCase(x) \notin failedIds
    /\ ~Has(failedAttempts, IdentityKey(x))
    /\ ~Has(failedAttempts, IdentityOriginKey(x, origin))

C9_OriginKeyBlocksNewIdentity ==
    OriginAloneTriggered =>
        \A x \in AllIdentities :
            BrandNew(x, ret.ip) => isLocked(failedAttempts, now, x, ret.ip).ret

C9_Witness ==
    /\ OriginAloneTriggered
    /\ Cardinality(failedIds) >= 2
    /\ \A id \in failedIds : TotalLockoutsOf(failedAttempts, IdentityKey(id)) = 0
    /\ BrandNew("c@x.io", ret.ip)
    /\ isLocked(failedAttempts, now, "c@x.io", ret.ip).ret

(* C10 as stated: for every identity for which no failed attempt was ever   *)
(* recorded, isLocked(identity, origin) is false for every origin.          *)
C10_NeverFailedNeverLocked ==
    \A i \in AllIdentities, o \in Origins :
        toLowerCase(i) \notin failedIds => ~isLocked(failedAttempts, now, i, o).ret

(* C10 amended: for such an identity isLocked is false without an origin,   *)
(* and with an origin it is true exactly when that origin's own record is   *)
(* locked.                                                                  *)
C10_NeverFailedLockedOnlyByOrigin ==
    \A i \in AllIdentities :
        toLowerCase(i) \notin failedIds =>
            /\ ~isLocked(failedAttempts, now, i, NoIp).ret
            /\ \A o \in Origins \ {NoIp} :
                   isLocked(failedAttempts, now, i, o).ret <=> LockedNow(OriginKey(o))

C10_Witness ==
    \E o \in Origins \ {NoIp} :
        /\ "c@x.io" \notin failedIds
        /\ ticks > 0
        /\ isLocked(failedAttempts, now, "c@x.io", o).ret
        /\ ~isLocked(failedAttempts, now, "c@x.io", NoIp).ret

(* min(base * 2^n, maxDuration), by doubling *)
RECURSIVE DoubledCapped(_, _)
DoubledCapped(d, n) ==
    IF n = 0
    THEN Min(d, MAX_LOCKOUT_DURATION_MS)
    ELSE Min(2 * DoubledCapped(d, n - 1), MAX_LOCKOUT_DURATION_MS)

C5_ClearAttemptsFrame ==
    [][ret'.op = "clearAttempts" =>
          /\ DOMAIN failedAttempts' = DOMAIN failedAttempts
          /\ \A k \in DOMAIN failedAttempts :
                 IF k \in DerivedKeys(ret'.id, ret'.ip)
                 THEN failedAttempts'[k] =
                          [count |-> 0, lockedUntil |-> Undefined,
                           totalLockouts |-> failedAttempts[k].totalLockouts,
                           lastAttempt |-> failedAttempts[k].lastAttempt]
                 ELSE failedAttempts'[k] = failedAttempts[k]
          /\ ~isLocked(failedAttempts', now', ret'.id, ret'.ip).ret
      ]_vars

(* clearAttempts without origin unlocked the identity key and left the      *)
(* locked origin and identity+origin records alone                          *)
C5_Witness ==
    /\ ret.op = "clearAttempts"
    /\ ret.ip = NoIp
    /\ IdentityKey(ret.id) \in DOMAIN lockHist
    /\ lockHist[IdentityKey(ret.id)].cleared
    /\ failedAttempts[IdentityKey(ret.id)].totalLockouts = 1
    /\ failedAttempts[IdentityKey(ret.id)].lockedUntil = Undefined
    /\ \E o \in Origins \ {NoIp} :
           LockedNow(OriginKey(o)) /\ LockedNow(IdentityOriginKey(ret.id, o))

(* C6 as stated: a lockout that follows clearAttempts and a fresh sequence  *)
(* of failures is strictly longer than the key's previous lockout.          *)
C6_StrictEscalation ==
    \A k \in DOMAIN lockHist :
        (lockHist[k].prev > 0 /\ lockHist[k].afterClear)
            => lockHist[k].dur > lockHist[k].prev

(* C6 amended: it is never shorter, and strictly longer exactly when the    *)
(* previous (K-th) lockout was shorter than 24 h and K < 10.                *)
C6_EscalationUpToTheCaps ==
    \A k \in DOMAIN lockHist :
        (lockHist[k].prev > 0 /\ lockHist[k].afterClear)
            => /\ lockHist[k].dur >= lockHist[k].prev
               /\ lockHist[k].dur > lockHist[k].prev
                    <=> /\ lockHist[k].prev < MAX_LOCKOUT_DURATION_MS
                        /\ failedAttempts[k].totalLockouts - 1 < 10

(* The 11th lockout, after clearAttempts, lasts as long as the 10th *)
C6_Witness ==
    \E k \in DOMAIN lockHist :
        /\ lockHist[k].afterClear
        /\ failedAttempts[k].totalLockouts = 11
        /\ lockHist[k].dur = lockHist[k].prev
        /\ lockHist[k].dur < MAX_LOCKOUT_DURATION_MS

(* The map after n failures of (identity, origin) at time t *)
RECURSIVE AfterFailures(_, _, _, _, _)
AfterFailures(fa, t, identity, origin, n) ==
    IF n = 0
    THEN fa
    ELSE AfterFailures(recordFailedAttempt(fa, t, identity, origin).fa, t, identity, origin, n - 1)

(* The records of a pair that is locked out for the first time at time t *)
FirstEverLockout(t, identity, origin) == AfterFailures(<<>>, t, identity, origin, MAX_ATTEMPTS)

(* C7: after fullReset(identity, origin) no derived key has a record; a     *)
(* following fresh sequence of MAX_ATTEMPTS failures of the same pair locks *)
(* with totalLockouts = 1 and for as long as a first-ever lockout does.     *)
C7_FullResetErasesHistory ==
    /\ ret.op = "fullReset" =>
           \A k \in DerivedKeys(ret.id, ret.ip) : ~Has(failedAttempts, k)
    /\ (RunComplete /\ run.reset) =>
           \A k \in DerivedKeys(run.id, run.ip) :
               /\ Has(failedAttempts, k)
               /\ failedAttempts[k].totalLockouts = 1
               /\ failedAttempts[k].lockedUntil
                      = FirstEverLockout(now, run.id, run.ip)[k].lockedUntil

C7_Witness ==
    /\ RunComplete
    /\ run.reset
    /\ run.ip # NoIp
    /\ ret.bool
    /\ \A k \in DerivedKeys(run.id, run.ip) : LockedNow(k)

(* The records derived from an account's e-mail *)
AccountKeys(email) ==
    {IdentityKey(email)} \cup {IdentityOriginKey(email, o) : o \in Origins \ {NoIp}}

(* C8: after a successful password reset for the account with e-mail E,     *)
(* every lockout record derived from E has been deleted: the identity-keyed *)
(* record and every identity+origin-keyed record.                           *)
C8_PasswordResetDeletesAccountRecords ==
    (ret.op = "resetPassword" /\ ret.bool /\ ret.id # "")
        => \A k \in AccountKeys(ret.id) : ~Has(failedAttempts, k)

(* C11: after a key's first lockout has run out with no other operation on  *)
(* it (MAX_ATTEMPTS > 1), the next recordFailedAttempt is attempt 1 of a    *)
(* new cycle: it returns false and leaves count = 1, the key unlocked and   *)
(* totalLockouts = 1; the key locks again only with the MAX_ATTEMPTS-th     *)
(* such failure, and that is its second lock event (totalLockouts = 2).     *)
C11_NewCycleAfterExpiry ==
    MAX_ATTEMPTS > 1 =>
        /\ \A k \in DOMAIN lockHist :
               /\ (lockHist[k].events = 1 /\ lockHist[k].clean /\ lockHist[k].fails >= 1)
                      => /\ failedAttempts[k].count = lockHist[k].fails
                         /\ lockHist[k].fails < MAX_ATTEMPTS
                         /\ failedAttempts[k].totalLockouts = 1
                         /\ ~LockedNow(k)
               /\ (lockHist[k].events = 2 /\ lockHist[k].cycle > 0)
                      => /\ lockHist[k].cycle = MAX_ATTEMPTS
                         /\ failedAttempts[k].totalLockouts = 2
        /\ ( /\ ret.op = "recordFailedAttempt"
             /\ \A k \in DerivedKeys(ret.id, ret.ip) :
                    /\ k \in DOMAIN lockHist
                    /\ lockHist[k].events = 1 /\ lockHist[k].clean /\ lockHist[k].fails = 1 )
               => ~ret.bool

(* The second lock event of the three keys of a pair, each after a clean    *)
(* cycle of MAX_ATTEMPTS failures                                           *)
C11_Witness ==
    /\ ret.op = "recordFailedAttempt"
    /\ ret.bool
    /\ ret.ip # NoIp
    /\ \A k \in DerivedKeys(ret.id, ret.ip) :
           /\ k \in DOMAIN lockHist
           /\ lockHist[k].events = 2
           /\ lockHist[k].cycle = MAX_ATTEMPTS
           /\ LockedNow(k)

AllKeys == (DOMAIN failedAttempts) \cup (DOMAIN failedAttempts')

(* C12 as stated: no step other than an explicit fullReset lowers the       *)
(* lockout history (totalLockouts, 0 when the record is absent) of a key.   *)
C12_OnlyFullResetLowersHistory ==
    [][ \A k \in AllKeys :
            TotalLockoutsOf(failedAttempts', k) < TotalLockoutsOf(failedAttempts, k)
                => ret'.op \in {"fullReset", "resetPassword"}
      ]_vars

(* C12 amended: the totalLockouts of a record that stays never decreases; a *)
(* key's history is lost only by the deletion of its record, by a fullReset *)
(* that derives the key or by a sweep that finds the record stale.          *)
C12_HistoryLostOnlyByDeletion ==
    [][ \A k \in AllKeys :
            TotalLockoutsOf(failedAttempts', k) < TotalLockoutsOf(failedAttempts, k)
                => /\ ~Has(failedAttempts', k)
                   /\ \/ /\ ret'.op \in {"fullReset", "resetPassword"}
                         /\ k \in DerivedKeys(ret'.id, ret'.ip)
                      \/ /\ ret'.op = "cleanup"
                         /\ IF failedAttempts[k].lockedUntil = Undefined
                            THEN failedAttempts[k].lastAttempt < now - RECORD_EXPIRY_MS
                            ELSE failedAttempts[k].lockedUntil < now - RECORD_EXPIRY_MS
      ]_vars

(* A sweep has deleted the record, and with it the lock history, of an      *)
(* identity that had failed                                                 *)
C12_Witness ==
    /\ ret.op = "cleanup"
    /\ ret.bool
    /\ \E id \in failedIds : ~Has(failedAttempts, IdentityKey(id))

CountOf(fa, key) == IF Has(fa, key) THEN fa[key].count ELSE 0

LockedUntilOf(fa, key) == IF Has(fa, key) THEN fa[key].lockedUntil ELSE Undefined

(* C13: recordFailedAttempt(identity, origin) returns true if and only if   *)
(* the count of at least one derived key reached MAX_ATTEMPTS in this call; *)
(* such a key gets lockedUntil set and totalLockouts incremented by exactly *)
(* 1, and on every other derived key (all of them when it returns false)    *)
(* lockedUntil and totalLockouts do not change.                             *)
C13_ReturnsTrueIffSomeKeyLocked ==
    [][ ret'.op = "recordFailedAttempt" =>
          LET reached == {k \in DerivedKeys(ret'.id, ret'.ip) :
                              CountOf(failedAttempts, k) + 1 >= MAX_ATTEMPTS}
          IN  /\ ret'.bool <=> reached # {}
              /\ \A k \in reached :
                     /\ failedAttempts'[k].lockedUntil # Undefined
                     /\ failedAttempts'[k].lockedUntil # LockedUntilOf(failedAttempts, k)
                     /\ failedAttempts'[k].totalLockouts = TotalLockoutsOf(failedAttempts, k) + 1
              /\ \A k \in DerivedKeys(ret'.id, ret'.ip) \ reached :
                     /\ failedAttempts'[k].lockedUntil = LockedUntilOf(failedAttempts, k)
                     /\ failedAttempts'[k].totalLockouts = TotalLockoutsOf(failedAttempts, k)
      ]_vars

(* The call returned true because the identity key alone reached the        *)
(* threshold; the other two keys were counted and did not lock              *)
C13_Witness ==
    /\ ret.op = "recordFailedAttempt"
    /\ ret.bool
    /\ ret.ip # NoIp
    /\ LockedNow(IdentityKey(ret.id))
    /\ failedAttempts[IdentityKey(ret.id)].lastAttempt = now
    /\ \A k \in {OriginKey(ret.ip), IdentityOriginKey(ret.id, ret.ip)} :
           /\ Has(failedAttempts, k)
           /\ failedAttempts[k].count = 1
           /\ failedAttempts[k].totalLockouts = 0
           /\ failedAttempts[k].lockedUntil = Undefined

(* The latest state-changing step was a recordFailedAttempt that started    *)
(* the latest lock event of key k                                           *)
TriggeredByLatest(k) ==
    /\ ret.op = "recordFailedAttempt"
    /\ k \in DerivedKeys(ret.id, ret.ip)
    /\ k \in DOMAIN lockHist
    /\ lockHist[k].clean
    /\ lockHist[k].fails = 0

(* C14: in every reachable state (MAX_ATTEMPTS >= 1) every record has       *)
(* 0 <= count < MAX_ATTEMPTS, and a record whose lock was triggered by the  *)
(* latest recordFailedAttempt has count = 0 and its lockedUntil set.        *)
C14_CountBelowThreshold ==
    MAX_ATTEMPTS >= 1 =>
        \A k \in DOMAIN failedAttempts :
            /\ 0 <= failedAttempts[k].count
            /\ failedAttempts[k].count < MAX_ATTEMPTS
            /\ TriggeredByLatest(k)
                   => /\ failedAttempts[k].count = 0
                      /\ failedAttempts[k].lockedUntil = now + lockHist[k].dur

(* One key has just locked while another stands one failure below the threshold *)
C14_Witness ==
    \E k, j \in DOMAIN failedAttempts :
        /\ TriggeredByLatest(k)
        /\ LockedNow(k)
        /\ j \in DerivedKeys(ret.id, ret.ip)
        /\ failedAttempts[j].count = MAX_ATTEMPTS - 1
        /\ failedAttempts[j].count > 0

(* C15: isLocked creates no record and changes no count, totalLockouts or   *)
(* lastAttempt; the only change it makes is to unset a lockedUntil that has *)
(* run out on a derived key: never one still in the future, never on        *)
(* another key.                                                             *)
C15_IsLockedOnlyExpires ==
    [][ ret'.op = "isLocked" =>
          /\ DOMAIN failedAttempts' = DOMAIN failedAttempts
          /\ \A k \in DOMAIN failedAttempts :
                 \/ failedAttempts'[k] = failedAttempts[k]
                 \/ /\ k \in DerivedKeys(ret'.id, ret'.ip)
                    /\ failedAttempts[k].lockedUntil # Undefined
                    /\ failedAttempts[k].lockedUntil <= now
                    /\ failedAttempts'[k] =
                           [count |-> failedAttempts[k].count,
                            lockedUntil |-> Undefined,
                            totalLockouts |-> failedAttempts[k].totalLockouts,
                            lastAttempt |-> failedAttempts[k].lastAttempt]
      ]_vars

(* isLocked answered true for a lock of the origin key after it had unset   *)
(* the run-out lock of the identity key, whose count it left at 1           *)
C15_Witness ==
    /\ ret.op = "isLocked"
    /\ ret.bool
    /\ ret.ip # NoIp
    /\ Has(failedAttempts, IdentityKey(ret.id))
    /\ failedAttempts[IdentityKey(ret.id)].lockedUntil = Undefined
    /\ failedAttempts[IdentityKey(ret.id)].totalLockouts = 1
    /\ failedAttempts[IdentityKey(ret.id)].count = 1
    /\ LockedNow(OriginKey(ret.ip))

(* The derived keys in the order identity, origin, identity+origin *)
KeyOrder(identity, origin) ==
    IF origin = NoIp
    THEN << IdentityKey(identity) >>
    ELSE << IdentityKey(identity), OriginKey(origin), IdentityOriginKey(identity, origin) >>

(* The record of key has a lockedUntil that has passed *)
RunOut(key) == Has(failedAttempts, key) /\ Elapsed(failedAttempts[key], now)

(* C16 as stated: when isLocked(identity, origin) returns, with true or     *)
(* with false, every derived record whose lockedUntil had passed at the     *)
(* time of the call has had it cleared.                                     *)
C16_LazyExpiryComplete ==
    \A i \in AllIdentities, o \in Origins :
        \A k \in DerivedKeys(i, o) :
            RunOut(k) => isLocked(failedAttempts, now, i, o).fa[k].lockedUntil = Undefined

(* C16 amended: when isLocked returns false every such record has been      *)
(* cleared; when it returns true, exactly those that come before the first  *)
(* currently locked key in the order identity, origin, identity+origin.     *)
C16_LazyExpiryUpToFirstLock ==
    \A i \in AllIdentities, o \in Origins :
        LET keys == KeyOrder(i, o)
            r    == isLocked(failedAttempts, now, i, o)
        IN  /\ \A n \in 1..Len(keys) :
                   RunOut(keys[n]) =>
                       (r.fa[keys[n]].lockedUntil = Undefined
                            <=> \A m \in 1..(n - 1) : ~LockedNow(keys[m]))
            /\ ~r.ret => \A n \in 1..Len(keys) :
                             RunOut(keys[n]) => r.fa[keys[n]].lockedUntil = Undefined

(* The identity key is locked, the origin key's lock has run out: isLocked  *)
(* answers true and the origin key keeps its lockedUntil                    *)
C16_Witness ==
    \E i \in AllIdentities, o \in Origins \ {NoIp} :
        /\ LockedNow(IdentityKey(i))
        /\ RunOut(OriginKey(o))
        /\ isLocked(failedAttempts, now, i, o).ret
        /\ isLocked(failedAttempts, now, i, o).fa[OriginKey(o)].lockedUntil
               = failedAttempts[OriginKey(o)].lockedUntil

(* The greatest element of a non-empty set of numbers, 0 for the empty set *)
Greatest(S) == IF S = {} THEN 0 ELSE CHOOSE x \in S : \A y \in S : y <= x

(* The least whole number of minutes that covers ms milliseconds, ms > 0 *)
WholeMinutes(ms) ==
    CHOOSE m \in 1..(MAX_LOCKOUT_DURATION_MS \div MsPerMinute) :
        (m - 1) * MsPerMinute < ms /\ ms <= m * MsPerMinute

(* C17: getRemainingLockoutTime(identity, origin) returns the ceiling, in   *)
(* whole minutes, of the time until the latest future lockedUntil among the *)
(* derived keys, and 0 exactly when none of them is currently locked.       *)
C17_RemainingIsCeilOfLatestLock ==
    \A i \in AllIdentities, o \in Origins :
        LET locked == {k \in DerivedKeys(i, o) : LockedNow(k)}
            latest == Greatest({failedAttempts[k].lockedUntil : k \in locked})
            r      == getRemainingLockoutTime(failedAttempts, now, i, o)
        IN  /\ r = 0 <=> locked = {}
            /\ locked # {} => r = WholeMinutes(latest - now)

(* Two derived keys are locked until different times, neither a whole       *)
(* number of minutes away: the later one decides                            *)
C17_Witness ==
    \E i \in AllIdentities, o \in Origins \ {NoIp} :
        /\ LockedNow(IdentityKey(i))
        /\ LockedNow(OriginKey(o))
        /\ failedAttempts[IdentityKey(i)].lockedUntil > failedAttempts[OriginKey(o)].lockedUntil
        /\ (failedAttempts[IdentityKey(i)].lockedUntil - now) % MsPerMinute # 0
        /\ getRemainingLockoutTime(failedAttempts, now, i, o) = 60
        /\ getRemainingLockoutTime(failedAttempts, now, "b@x.io", o) = 30

(* C18: getLockoutStatus(identity, origin) returns failedAttempts,          *)
(* totalLockouts and remainingMinutes equal to the maximum of the           *)
(* respective values over the derived keys that have a record, and isLocked *)
(* true exactly when some derived key has lockedUntil in the future.        *)
C18_StatusIsMaximumOverRecords ==
    \A i \in AllIdentities, o \in Origins :
        LET existing == {k \in DerivedKeys(i, o) : Has(failedAttempts, k)}
            status   == getLockoutStatus(failedAttempts, now, i, o)
        IN  /\ status.failedAttempts = Greatest({failedAttempts[k].count : k \in existing})
            /\ status.totalLockouts = Greatest({failedAttempts[k].totalLockouts : k \in existing})
            /\ status.remainingMinutes =
                   Greatest({IF LockedNow(k)
                             THEN WholeMinutes(failedAttempts[k].lockedUntil - now)
                             ELSE 0 : k \in existing})
            /\ status.isLocked <=> \E k \in existing : LockedNow(k)

(* The three maxima come from different records: the identity key is locked *)
(* with count 0, the origin key is unlocked with count 1                    *)
C18_Witness ==
    \E i \in AllIdentities, o \in Origins \ {NoIp} :
        /\ LockedNow(IdentityKey(i))
        /\ failedAttempts[IdentityKey(i)].count = 0
        /\ (failedAttempts[IdentityKey(i)].lockedUntil - now) % MsPerMinute # 0
        /\ Has(failedAttempts, OriginKey(o))
        /\ failedAttempts[OriginKey(o)].count = 1
        /\ failedAttempts[OriginKey(o)].totalLockouts = 0
        /\ getLockoutStatus(failedAttempts, now, i, o)
               = [isLocked |-> TRUE, failedAttempts |-> 1,
                  remainingMinutes |-> 30, totalLockouts |-> 1]

(* The map reduced to the record of one key *)
OnlyRecord(key) == [k \in (DOMAIN failedAttempts) \cap {key} |-> failedAttempts[k]]

(* C19: an operation called without an origin reads and modifies only the   *)
(* identity-keyed record: its result is the one it gives on that record     *)
(* alone, and every other record is left as it was and none is created.     *)
C19_NoOriginOnlyIdentityKey ==
    [][ /\ \A i \in {ret.id, ret'.id} :
               /\ isLocked(failedAttempts, now, i, NoIp).ret
                      = isLocked(OnlyRecord(IdentityKey(i)), now, i, NoIp).ret
               /\ getRemainingLockoutTime(failedAttempts, now, i, NoIp)
                      = getRemainingLockoutTime(OnlyRecord(IdentityKey(i)), now, i, NoIp)
               /\ getLockoutStatus(failedAttempts, now, i, NoIp)
                      = getLockoutStatus(OnlyRecord(IdentityKey(i)), now, i, NoIp)
        /\ ( /\ ret'.ip = NoIp
             /\ ret'.op \in {"isLocked", "recordFailedAttempt", "clearAttempts", "fullReset"} )
               => \A k \in AllKeys \ {IdentityKey(ret'.id)} :
                      /\ Has(failedAttempts, k)
                      /\ Has(failedAttempts', k)
                      /\ failedAttempts'[k] = failedAttempts[k]
      ]_vars

(* A failure recorded without origin has locked the identity key; the       *)
(* origin and identity+origin records stand as they were, at count 1        *)
C19_Witness ==
    /\ ret.op = "recordFailedAttempt"
    /\ ret.ip = NoIp
    /\ ret.bool
    /\ LockedNow(IdentityKey(ret.id))
    /\ \E o \in Origins \ {NoIp} :
           \A k \in {OriginKey(o), IdentityOriginKey(ret.id, o)} :
               /\ Has(failedAttempts, k)
               /\ failedAttempts[k].count = 1
               /\ failedAttempts[k].lastAttempt < now

(* C20: every lock lasts at most 24 hours from the time it was set, however *)
(* often the key has been locked, and the duration does not decrease with   *)
(* totalLockouts: a lock of a key is never shorter than the lock before it  *)
(* in the same record.                                                      *)
C20_DurationBoundedAndMonotone ==
    /\ \A k \in DOMAIN lockHist :
           /\ lockHist[k].dur <= MAX_LOCKOUT_DURATION_MS
           /\ lockHist[k].prev <= lockHist[k].dur
           /\ failedAttempts[k].lockedUntil # Undefined
                  => failedAttempts[k].lockedUntil
                         <= failedAttempts[k].lastAttempt + MAX_LOCKOUT_DURATION_MS
    /\ \A n \in 0..DeepLockouts :
           /\ calculateLockoutDuration(n) <= calculateLockoutDuration(n + 1)
           /\ calculateLockoutDuration(n + 1) <= MAX_LOCKOUT_DURATION_MS

(* With a base of 6 hours the third lock and the one before it both last    *)
(* the full 24 hours                                                        *)
C20_Witness ==
    \E k \in DOMAIN lockHist :
        /\ failedAttempts[k].totalLockouts >= 3
        /\ lockHist[k].prev = MAX_LOCKOUT_DURATION_MS
        /\ lockHist[k].dur = MAX_LOCKOUT_DURATION_MS
        /\ failedAttempts[k].lockedUntil = failedAttempts[k].lastAttempt + MAX_LOCKOUT_DURATION_MS

(* The record is unlocked (lockedUntil unset, or set and run out) and its   *)
(* last attempt is older than the retention window                          *)
UnlockedAndStale(rec) ==
    /\ rec.lockedUntil = Undefined \/ rec.lockedUntil <= now
    /\ rec.lastAttempt < now - RECORD_EXPIRY_MS

(* C21 as stated: after a sweep no record remains that was unlocked and     *)
(* stale at the time of the sweep.                                          *)
C21_SweepRemovesUnlockedStale ==
    [][ ret'.op = "cleanup" =>
          \A k \in DOMAIN failedAttempts :
              UnlockedAndStale(failedAttempts[k]) => ~Has(failedAttempts', k)
      ]_vars

(* C21 amended: after a sweep the records that remain are those that had    *)
(* lockedUntil unset and a last attempt within the last 24 hours, or        *)
(* lockedUntil set and not more than 24 hours in the past; a record whose   *)
(* lock ran out less than 24 hours ago remains however old its last attempt *)
(* is.                                                                      *)
C21_SweepRemovesByLockedUntilOrLastAttempt ==
    [][ ret'.op = "cleanup" =>
          /\ DOMAIN failedAttempts' \subseteq DOMAIN failedAttempts
          /\ \A k \in DOMAIN failedAttempts :
                 /\ Has(failedAttempts', k) <=>
                        IF failedAttempts[k].lockedUntil = Undefined
                        THEN failedAttempts[k].lastAttempt >= now - RECORD_EXPIRY_MS
                        ELSE failedAttempts[k].lockedUntil >= now - RECORD_EXPIRY_MS
                 /\ Has(failedAttempts', k) => failedAttempts'[k] = failedAttempts[k]
      ]_vars

(* A sweep has left a record whose lock had run out and whose last attempt  *)
(* was more than 24 hours old                                               *)
C21_Witness ==
    /\ ret.op = "cleanup"
    /\ \E k \in DOMAIN failedAttempts :
           /\ failedAttempts[k].lockedUntil # Undefined
           /\ UnlockedAndStale(failedAttempts[k])

(* C22: a sweep never deletes a record whose lockedUntil is in the future,  *)
(* nor one whose lockedUntil is set and ran out less than 24 hours ago; it  *)
(* never changes the result of isLocked or getRemainingLockoutTime for any  *)
(* (identity, origin).                                                      *)
C22_SweepKeepsLocks ==
    [][ ret'.op = "cleanup" =>
          /\ \A k \in DOMAIN failedAttempts :
                 (/\ failedAttempts[k].lockedUntil # Undefined
                  /\ failedAttempts[k].lockedUntil + RECORD_EXPIRY_MS > now)
                     => Has(failedAttempts', k)
          /\ \A i \in AllIdentities, o \in Origins :
                 /\ isLocked(failedAttempts', now', i, o).ret
                        = isLocked(failedAttempts, now, i, o).ret
                 /\ getRemainingLockoutTime(failedAttempts', now', i, o)
                        = getRemainingLockoutTime(failedAttempts, now, i, o)
      ]_vars

(* A sweep has deleted the stale record of one identity while the origin    *)
(* key, locked by a later failure, still blocks everyone from that origin   *)
C22_Witness ==
    /\ ret.op = "cleanup"
    /\ resets = 0
    /\ \E id \in failedIds : ~Has(failedAttempts, IdentityKey(id))
    /\ \E o \in Origins \ {NoIp} :
           /\ LockedNow(OriginKey(o))
           /\ isLocked(failedAttempts, now, "c@x.io", o).ret

(* No failure is recorded any more *)
FailuresCeased == ticks > LiveTicks

(* C23: if time keeps advancing, the sweep keeps running and no further     *)
(* failure is recorded on a key, the key's record is eventually deleted,    *)
(* whether or not its lockedUntil was ever unset by isLocked.               *)
C23_RecordsEventuallyDeleted ==
    \A k \in DerivedKeys("a@x.io", "1.2.3.4") :
        (Has(failedAttempts, k) /\ FailuresCeased) ~> ~Has(failedAttempts, k)

(* The sweeps alone have emptied the map after the failures ceased *)
C23_Witness ==
    /\ ret.op = "cleanup"
    /\ FailuresCeased
    /\ resets = 0
    /\ failedIds # {}
    /\ failedAttempts = << >>

----------------------------------------------------------------------------
(* The login and register handlers *)

(* The step is the first step of a request: login or register up to its await *)
CheckStep == requests' = requests + 1

(* The step is the second step of a request that awaited the provider *)
AnswerStep ==
    /\ requests' = requests
    /\ res'.phase = "answer"
    /\ BagIn(Request(res'.h, res'.email, res'.ip), pending)
    /\ pending' = pending (-) SetToBag({Request(res'.h, res'.email, res'.ip)})

(* No record is created or deleted and no failedCount or totalLockouts changes *)
CountsUnchanged ==
    /\ DOMAIN failedAttempts' = DOMAIN failedAttempts
    /\ \A k \in DOMAIN failedAttempts :
           /\ failedAttempts'[k].count = failedAttempts[k].count
           /\ failedAttempts'[k].totalLockouts = failedAttempts[k].totalLockouts

(* C24: when isLocked is true for the (identity, origin) of a login or     *)
(* register request as the handler runs, the identity provider is not       *)
(* contacted (no request is added to those awaiting it), the response is    *)
(* RATE_LIMITED and no failedCount or totalLockouts changes; and a step     *)
(* that changes a failedCount or a totalLockouts, or that clears a lock     *)
(* that has not run out, is the step after the provider's answer.           *)
C24_LockCheckComesFirst ==
    [][/\ CheckStep =>
            /\ res'.phase = "check"
            /\ CountsUnchanged
            /\ isLocked(failedAttempts, now, lockoutIdentity(res'.h, res'.email), res'.ip).ret
                   => pending' = pending /\ res'.code = "RATE_LIMITED"
       /\ \/ ~CountsUnchanged
          \/ \E k \in DOMAIN failedAttempts :
                 LockedNow(k) /\ failedAttempts'[k].lockedUntil # failedAttempts[k].lockedUntil
          => AnswerStep]_vars

(* A registration is turned away while the origin's record is locked *)
C24_Witness ==
    /\ res.phase = "check"
    /\ res.h = "register"
    /\ res.code = "RATE_LIMITED"
    /\ LockedNow(OriginKey(WebOrigin))

(* C25: while no time passes and no login succeeds, the identity provider  *)
(* rejects the credentials of at most MAX_ATTEMPTS logins to an account,    *)
(* and no record has more than one lock event.                              *)
C25_BurstLocksOnceAfterMaxAttempts ==
    ticks = 0 /\ resets = 0 =>
        /\ guesses <= MAX_ATTEMPTS
        /\ \A k \in DOMAIN failedAttempts : failedAttempts[k].totalLockouts <= 1

----------------------------------------------------------------------------
(* Failures while locked, successes and provider errors *)

(* C26: recordFailedAttempt on a key whose lock is still active leaves the  *)
(* key's totalLockouts and lockedUntil as they are.                         *)
C26_NoLockEventWhileLocked ==
    [][ret'.op = "recordFailedAttempt" =>
           \A k \in DerivedKeys(ret'.id, ret'.ip) :
               LockedNow(k) =>
                   /\ failedAttempts'[k].totalLockouts = failedAttempts[k].totalLockouts
                   /\ failedAttempts'[k].lockedUntil = failedAttempts[k].lockedUntil]_vars

(* C27: a successful login by an identity that never failed leaves the     *)
(* failedCount and the lockedUntil of its origin's record, which other      *)
(* identities built up, as they are.                                        *)
C27_SuccessLeavesOriginRecord ==
    [][/\ AnswerStep
       /\ res'.h = "login"
       /\ res'.code = "OK"
       /\ toLowerCase(res'.email) \notin failedIds
       /\ Has(failedAttempts, OriginKey(res'.ip))
       => /\ CountOf(failedAttempts', OriginKey(res'.ip))
                 = CountOf(failedAttempts, OriginKey(res'.ip))
          /\ LockedUntilOf(failedAttempts', OriginKey(res'.ip))
                 = LockedUntilOf(failedAttempts, OriginKey(res'.ip))]_vars

(* What the provider answers when it cannot be reached or times out, and    *)
(* when the credentials are right but the e-mail address is unconfirmed     *)
NotRejectedCredentials == {"fetch_failed", "email_not_confirmed", "unconfirmed"}

(* C28: a login that fails because the provider is unreachable or times     *)
(* out, or because the e-mail address is unconfirmed, creates no record     *)
(* and changes no failedCount and no totalLockouts.                         *)
C28_OnlyRejectedCredentialsCount ==
    [][/\ AnswerStep
       /\ res'.h = "login"
       /\ res'.outcome \in NotRejectedCredentials
       => CountsUnchanged]_vars

----------------------------------------------------------------------------
(* Registration and login *)

(* The identity a handler tracks an e-mail address under, and the handler   *)
(* that is not h                                                            *)
TrackedAs(h, email) == IF h = "register" THEN "register:" \o email ELSE email

OtherHandler(h) == IF h = "register" THEN "login" ELSE "register"

(* The step records the failure of a request *)
FailureRecorded ==
    AnswerStep /\ failedAttempts' # failedAttempts /\ ret'.op = "recordFailedAttempt"

(* Whether the lock check of handler h turns a request for email from      *)
(* origin away, given the map fa                                            *)
TurnedAway(fa, h, email, origin) == isLocked(fa, now, TrackedAs(h, email), origin).ret

(* C29, as stated: a failed registration from an origin never changes the   *)
(* result of login's lock check for any e-mail address from that origin,    *)
(* and a failed login never that of register's.                             *)
C29_RegistrationAndLoginIndependent ==
    [][FailureRecorded =>
           \A e \in WebEmails :
               TurnedAway(failedAttempts', OtherHandler(res'.h), e, res'.ip)
                   = TurnedAway(failedAttempts, OtherHandler(res'.h), e, res'.ip)]_vars

(* C29, corrected: registration and login share the origin's record and    *)
(* nothing else.  A failed request changes only the three records of its    *)
(* own (identity, origin); it never changes the other handler's lock check  *)
(* for a request without origin or from another origin; and it changes the  *)
(* other handler's lock check for its own origin exactly when it locks the  *)
(* origin's record.                                                         *)
C29_IndependentButForTheOrigin ==
    [][FailureRecorded =>
           /\ \A k \in (DOMAIN failedAttempts \cup DOMAIN failedAttempts')
                           \ DerivedKeys(TrackedAs(res'.h, res'.email), res'.ip) :
                  Has(failedAttempts, k) /\ failedAttempts'[k] = failedAttempts[k]
           /\ \A e \in WebEmails :
                  /\ \A o \in {NoIp, "5.6.7.8"} :
                         TurnedAway(failedAttempts', OtherHandler(res'.h), e, o)
                             = TurnedAway(failedAttempts, OtherHandler(res'.h), e, o)
                  /\ TurnedAway(failedAttempts', OtherHandler(res'.h), e, res'.ip)
                         # TurnedAway(failedAttempts, OtherHandler(res'.h), e, res'.ip)
                     <=> /\ OriginKey(res'.ip) \in Triggered(failedAttempts, failedAttempts')
                         /\ ~TurnedAway(failedAttempts, OtherHandler(res'.h), e, res'.ip)]_vars

(* A failed registration has just locked the origin's record: login turns   *)
(* away an account that has no record of its own, and would not without     *)
(* the origin                                                               *)
C29_Witness ==
    /\ res.phase = "answer"
    /\ res.h = "register"
    /\ ret.op = "recordFailedAttempt"
    /\ ret.bool
    /\ LockedNow(OriginKey(WebOrigin))
    /\ ~Has(failedAttempts, IdentityKey("a@x.io"))
    /\ TurnedAway(failedAttempts, "login", "a@x.io", WebOrigin)
    /\ ~TurnedAway(failedAttempts, "login", "a@x.io", NoIp)

----------------------------------------------------------------------------
(* OAuth states *)

(* The step is a call of validateOAuthState *)
ValidationStep == verdict'.n = verdict.n + 1

(* C30: validateOAuthState accepts a state at most once, accepts only      *)
(* states that were generated, removes a state it finds from the store      *)
(* whatever the result, and accepts no state more than 10 minutes after it  *)
(* was generated.                                                           *)
C30_StateSingleUseAndTimeLimited ==
    /\ [](\A x \in DOMAIN accepted : accepted[x] <= 1)
    /\ [][ValidationStep =>
              /\ ~Has(oauthStateStore', verdict'.state)
              /\ \A x \in DOMAIN oauthStateStore \ {verdict'.state} :
                     Has(oauthStateStore', x)
              /\ verdict'.ok =>
                     /\ Has(oauthStateStore, verdict'.state)
                     /\ verdict'.state \in DOMAIN issued
                     /\ now - issued[verdict'.state] <= OAUTH_STATE_TTL_MS]_vars

(* A state was accepted exactly 10 minutes after it was generated, and was  *)
(* then presented again and rejected                                        *)
C30_Witness ==
    /\ verdict.state \in DOMAIN accepted
    /\ accepted[verdict.state] = 1
    /\ ~verdict.ok
    /\ now = issued[verdict.state] + OAUTH_STATE_TTL_MS
    /\ \E x \in DOMAIN oauthStateStore : x # verdict.state

============================================================================
